---- MODULE Spec2Model ----
(***************************************************************************)
(* Model of the trade-tariff front end (aveedg/aws).                       *)
(*                                                                         *)
(* SpecBox : one results-page box (a LookupBox of one of the three         *)
(*           versions kept in the repository, or a CountrySummaryBox)     *)
(*           from mount to the end of its lookup and summarization.       *)
(* SpecApp : the export-location selection of the form (App).             *)
(*                                                                         *)
(* Text that the code inspects with includes()/toLowerCase()/=== is       *)
(* modelled as a tuple of characters, so that those tests are computed    *)
(* and not assumed.                                                        *)
(***************************************************************************)
EXTENDS Integers, Sequences, FiniteSets, TLC

\* ------------------------------------------------------------------ bounds
\* longest match list returned by /api/lookup
MaxMatches == 2
\* granularity of the clock that drives setTimeout, in milliseconds
TickMs == 250
\* number of EU member states kept in the selection model
MaxMembers == 3
\* number of countries outside the EU kept in the selection model
MaxOrdinary == 1
\* number of rejected submits that are followed
MaxAlerts == 2

\* ------------------------------------------------------- program constants
\* summarizeMatches(matches, retries = 2)
Retries == 2
\* Math.min(1000 * Math.pow(2, attempt), 8000)
BackoffBaseMs == 1000
BackoffCapMs == 8000

\* ------------------------------------------------------------------- text
UpperAlpha == <<"A","B","C","D","E","F","G","H","I","J","K","L","M",
                "N","O","P","Q","R","S","T","U","V","W","X","Y","Z">>
LowerAlpha == <<"a","b","c","d","e","f","g","h","i","j","k","l","m",
                "n","o","p","q","r","s","t","u","v","w","x","y","z">>

\* String.prototype.toLowerCase, one character
LowerChar(c) ==
  IF \E i \in 1..26 : UpperAlpha[i] = c
  THEN LowerAlpha[CHOOSE i \in 1..26 : UpperAlpha[i] = c]
  ELSE c

\* String.prototype.toLowerCase
toLowerCase(s) == [i \in 1..Len(s) |-> LowerChar(s[i])]

\* String.prototype.includes
includes(s, sub) ==
  \E i \in 0..(Len(s) - Len(sub)) : \A j \in 1..Len(sub) : s[i + j] = sub[j]

\* the three needles of the throttling test and the sentinel message
sThrottlingException ==
  <<"T","h","r","o","t","t","l","i","n","g","E","x","c","e","p","t","i","o","n">>
sTooManyRequests ==
  <<"T","o","o"," ","m","a","n","y"," ","r","e","q","u","e","s","t","s">>
sRateLimit == <<"r","a","t","e"," ","l","i","m","i","t">>
sTHROTTLE == <<"T","H","R","O","T","T","L","E">>
\* default messages of the code
sSummarizationFailed ==
  <<"S","u","m","m","a","r","i","z","a","t","i","o","n"," ","f","a","i","l","e","d">>
sLookupFailed == <<"L","o","o","k","u","p"," ","f","a","i","l","e","d">>
sNoDataAvailable ==
  <<"N","o"," ","d","a","t","a"," ","a","v","a","i","l","a","b","l","e">>
sNotFound == <<"n","o","t"," ","f","o","u","n","d">>
sNoSuch == <<"N","o"," ","s","u","c","h">>
\* messages the environment can produce
sFailedToFetch == <<"F","a","i","l","e","d"," ","t","o"," ","f","e","t","c","h">>
sBadJson == <<"U","n","e","x","p","e","c","t","e","d"," ","t","o","k","e","n">>
sInternalError == <<"I","n","t","e","r","n","a","l"," ","e","r","r","o","r">>
sAwsThrottled ==
  <<"T","h","r","o","t","t","l","i","n","g","E","x","c","e","p","t","i","o","n",
    ":"," ","s","l","o","w"," ","d","o","w","n">>
s429 == <<"4","2","9"," ","T","o","o"," ","m","a","n","y"," ","r","e","q","u","e","s","t","s">>
sRateLimitExceeded ==
  <<"r","a","t","e"," ","l","i","m","i","t"," ","e","x","c","e","e","d","e","d">>
sKeyNotFound == <<"k","e","y"," ","n","o","t"," ","f","o","u","n","d">>

\* the JavaScript null / undefined of a state hook or of a missing field
Null == [kind |-> "null"]


\* --------------------------------------------------------- match records
kHSCode == <<"H","S","_","C","o","d","e">>
kRate == <<"R","a","t","e">>
kId == <<"i","d">>
kNote == <<"n","o","t","e">>

\* a record that carries known tariff fields, one that carries none of
\* them, and a record that is a plain string instead of a mapping
v847130 == <<"8","4","7","1",".","3","0">>
RecTariff == [type |-> "object",
              entries |-> << <<kHSCode, v847130>>, <<kId, <<"1","7">> >>,
                             <<kRate, <<"5","%">> >> >>]
RecOpaque == [type |-> "object",
              entries |-> << <<kId, <<"1","8">> >>, <<kNote, <<"n","/","a">> >> >>]
RecText == [type |-> "string", entries |-> <<>>]
Records == {RecTariff, RecOpaque, RecText}

\* data.matches of an OK answer of /api/lookup: each match is {record, ...}
MatchLists ==
  UNION {[1..n -> {[record |-> r] : r \in Records}] : n \in 0..MaxMatches}

\* const keyFields = ['HS_Code', 'hs_code', 'description', 'rate', ...]
keyFields ==
  << <<"H","S","_","C","o","d","e">>,
     <<"h","s","_","c","o","d","e">>,
     <<"d","e","s","c","r","i","p","t","i","o","n">>,
     <<"r","a","t","e">>,
     <<"d","u","t","y","_","r","a","t","e">>,
     <<"p","r","o","d","u","c","t">>,
     <<"t","a","r","i","f","f","_","r","a","t","e">>,
     <<"c","o","u","n","t","r","y">> >>

\* .filter(([k]) => keyFields.some(f => k.toLowerCase().includes(f.toLowerCase())))
IsKeyField(e) ==
  \E i \in 1..Len(keyFields) : includes(toLowerCase(e[1]), toLowerCase(keyFields[i]))

\* Array.prototype.slice(0, n)
slice(a, n) == SubSeq(a, 1, IF Len(a) < n THEN Len(a) ELSE n)

\* ------------------------------------------------ the summarization call
\* what one request to /api/bedrock can come back with: an OK answer, an OK
\* answer whose body is not JSON, a non-OK answer with a detail text (<<>>:
\* no detail, or a body that cannot be parsed), or a rejected fetch
BedrockDetails ==
  {<<>>, sAwsThrottled, s429, sRateLimitExceeded, sTHROTTLE, sInternalError}
\* the non-OK answers: status and detail vary independently of each other
BedrockFailures ==
  {<<429, <<>> >>, <<429, s429>>, <<429, sAwsThrottled>>,
   <<500, sInternalError>>, <<500, sRateLimitExceeded>>, <<500, sTHROTTLE>>}
BedrockResponses ==
  {[kind |-> k, status |-> 0, detail |-> <<>>] : k \in {"ok", "okBadBody", "exception"}}
    \cup {[kind |-> "http", status |-> f[1], detail |-> f[2]] : f \in BedrockFailures}

\* body.detail || fallbackText
orDefault(detail, fallbackText) == IF detail = <<>> THEN fallbackText ELSE detail

\* errorMsg.includes('ThrottlingException') || errorMsg.includes('Too many
\* requests') || errorMsg.includes('rate limit')
IsThrottleText(errorMsg) ==
  \/ includes(errorMsg, sThrottlingException)
  \/ includes(errorMsg, sTooManyRequests)
  \/ includes(errorMsg, sRateLimit)

\* err.message of the error that reaches the catch of attemptSummarization
\* (of summarizeMatches in the version without retry) for a failed request
ThrownMessage(b, r) ==
  CASE r.kind = "http" ->
         LET errorMsg == orDefault(r.detail, sSummarizationFailed)
         IN  IF b # "LookupBox1" /\ IsThrottleText(errorMsg) THEN sTHROTTLE ELSE errorMsg
    [] r.kind = "exception" -> sFailedToFetch
    [] OTHER -> sBadJson

\* one retry too few: attempt < retries - 1
ShouldRetry_OneFewer(b, message, att) ==
  b # "LookupBox1" /\ message = sTHROTTLE /\ att < Retries - 1

\* one retry too many: attempt <= retries
ShouldRetry_OneMore(b, message, att) ==
  b # "LookupBox1" /\ message = sTHROTTLE /\ att <= Retries

\* err.message === 'THROTTLE' && attempt < retries
ShouldRetry(b, message, att) ==
  b # "LookupBox1" /\ message = sTHROTTLE /\ att < Retries

\* the exponent taken one too high: Math.pow(2, attempt + 1)
BackoffDelay_ExponentOff(att) ==
  IF BackoffBaseMs * (2 ^ (att + 1)) < BackoffCapMs THEN BackoffBaseMs * (2 ^ (att + 1))
  ELSE BackoffCapMs

\* Math.min(1000 * Math.pow(2, attempt), 8000)
BackoffDelay(att) ==
  IF BackoffBaseMs * (2 ^ att) < BackoffCapMs THEN BackoffBaseMs * (2 ^ att)
  ELSE BackoffCapMs

\* Object.entries(topMatch).filter(key field).slice(0, 5) of matches[0]?.record;
\* <<>> when there is no top record, it is not an object, or no key matches
relevantData(ms) ==
  IF Len(ms) > 0 /\ ms[1].record.type = "object"
  THEN slice(SelectSeq(ms[1].record.entries, IsKeyField), 5)
  ELSE <<>>

Summary(k, d, n) == [kind |-> k, data |-> d, n |-> n]
Notice(k, m) == [kind |-> k, msg |-> m]

\* setSummary(result) of a successful run
SuccessSummary == Summary("ai", <<>>, 0)

\* the summary left by the catch block of summarizeMatches for the message
\* errorMsg; Null when the block sets none (summary was reset on entry)
FailureSummary(b, ms, errorMsg) ==
  CASE b = "LookupBox2" ->
         IF IsThrottleText(errorMsg) \/ errorMsg = sTHROTTLE
         THEN IF relevantData(ms) # <<>>
              THEN Summary("keyFindings", relevantData(ms), 0) ELSE Null
         ELSE IF Len(ms) > 0 THEN Summary("foundCount", <<>>, Len(ms)) ELSE Null
    [] b = "LookupBox3" ->
         IF (IsThrottleText(errorMsg) \/ errorMsg = sTHROTTLE) /\ relevantData(ms) # <<>>
         THEN Summary("foundInfo", relevantData(ms), 0) ELSE Null
    [] OTHER -> Null

\* the summaryError set by the catch block of summarizeMatches
FailureNotice(b, errorMsg) ==
  CASE b = "LookupBox2" ->
         IF IsThrottleText(errorMsg) \/ errorMsg = sTHROTTLE
         THEN Notice("aiBusy", <<>>) ELSE Notice("analysisFailed", errorMsg)
    [] b = "LookupBox3" ->
         IF IsThrottleText(errorMsg) \/ errorMsg = sTHROTTLE
         THEN Notice("serviceBusy", <<>>) ELSE Notice("raw", errorMsg)
    [] OTHER -> Notice("raw", errorMsg)

\* ------------------------------------------------------ the lookup call
\* what the request to /api/lookup can come back with
LookupDetails == {<<>>, sKeyNotFound, sInternalError}
LookupResponses ==
  {[kind |-> "ok", status |-> 200, detail |-> <<>>, matches |-> m] : m \in MatchLists}
    \cup {[kind |-> k, status |-> 0, detail |-> <<>>, matches |-> <<>>] :
            k \in {"okBadBody", "exception"}}
    \cup {[kind |-> "http", status |-> st, detail |-> d, matches |-> <<>>] :
            st \in {404, 500}, d \in LookupDetails}

\* the three versions of LookupBox kept in the repository
LookupBoxes == {"LookupBox1", "LookupBox2", "LookupBox3"}
Boxes == LookupBoxes \cup {"CountrySummaryBox", "GlobalSearchBox"}

List(items) == [kind |-> "list", items |-> items]

\* the setResults([]) of a failed search left out: results stays as reset
resultsOnFailure_NotSet(prevResults) == prevResults

\* setResults([]) in the non-OK branches and in the catch block of
\* doLookup and doGlobalSearch
resultsOnFailure(prevResults) == List(<<>>)

\* ------------------------------------------------------------------ state
VARIABLES
  box,             \* which component this instance is
  props,           \* its props: initialQuery, country, autoDelay
  mounted,         \* FALSE once the component has been unmounted
  pc,              \* position of the auto-run effect and of doLookup
  query, results, loading, error,            \* state hooks
  summary, summaryLoading, summaryError,     \* state hooks
  hsCodes, hsLoading,                        \* state hooks of CountrySummaryBox
  searchStats,     \* state hook of GlobalSearchBox
  relevantHsCodes, \* the const relevantHsCodes of the running doLookup
  hsResp,          \* the answer of /api/lookup-hs-codes, once received
  matches,         \* the argument of the running summarizeMatches
  sumPc,           \* position of summarizeMatches
  attempt,         \* the argument of the running attemptSummarization
  timerDelay,      \* delay of the pending setTimeout
  elapsed,         \* time since the pending setTimeout was armed
  reqLog,          \* the requests issued so far: endpoint and query sent
  lookupResp,      \* the answer of /api/lookup, once received
  respLog,         \* the answers of /api/bedrock received so far
  waits,           \* for each retry: the delay asked for and the time waited
  form,            \* which version of the form component this is
  exportLocations, \* formData.exportLocations of the form
  lastToggled,     \* the country of the last toggle, "" before the first
  prevToggled,     \* the country of the toggle before the last
  beforeLast,      \* the selected set before the last toggle
  beforePrev,      \* the selected set before the toggle before the last
  route,           \* the route the router shows: "/" or "/results"
  navState,        \* the formData handed to navigate('/results', ...)
  alerts,          \* how often the form has raised its alert
  pageVersion,     \* which version of the ResultsPage component this is
  locationState,   \* location.state: formData and globalSearchMode
  children,        \* the boxes the page has mounted, each with its position
  now,             \* time since the page was mounted, in milliseconds
  pageLog,         \* the requests of the page: box index, endpoint, time
  chatMessages,    \* messages of the chat widget, each with the send it belongs to
  inputValue,      \* the text in the input field of the widget
  isTyping,        \* state hook of the widget
  runs,            \* the calls of handleSendMessage that got past the guard
  chatEvent        \* what the last handler of the widget did

boxVars == <<box, props, mounted, pc, query, results, loading, error,
             summary, summaryLoading, summaryError, hsCodes, hsLoading,
             searchStats, relevantHsCodes, hsResp, matches, sumPc, attempt,
             timerDelay, elapsed, reqLog, lookupResp, respLog, waits>>
appVars == <<form, exportLocations, lastToggled, prevToggled, beforeLast,
            beforePrev, route, navState, alerts>>
pageVars == <<pageVersion, locationState, children, now, pageLog>>
chatVars == <<chatMessages, inputValue, isTyping, runs, chatEvent>>
vars == <<boxVars, appVars, pageVars, chatVars>>
hooks == <<query, results, loading, error, summary, summaryLoading,
           summaryError, hsCodes, hsLoading, searchStats>>
csbVars == <<hsCodes, hsLoading, relevantHsCodes, hsResp>>

\* words of a query; a query is the sequence of its words joined by spaces
InitialQueries == {<<>>, <<"laptops">>}
Countries == {"Ghana"}

\* autoDelay={idx * 250} for the boxes at index 0 and 1
LookupBoxDelays == {0, 250}

NoResponse == [kind |-> "none", status |-> 0, detail |-> <<>>, matches |-> <<>>]
NoHsResponse == [kind |-> "none", hs_codes |-> <<>>]

\* const combined = country ? (initialQuery ? `${initialQuery} ${country}`
\* : country) : initialQuery;  const trimmed = (combined || '').trim()
trimmed(p) == p.initialQuery \o <<p.country>>

\* a LookupBox after its first render and the run of its auto-run effect:
\* the query is set and the lookup is scheduled
InitLookupBox ==
  /\ box \in LookupBoxes
  /\ props \in [initialQuery : InitialQueries, country : Countries,
                autoDelay : LookupBoxDelays]
  /\ mounted = TRUE
  /\ pc = "timer"
  /\ query = trimmed(props)
  /\ results = Null /\ loading = FALSE /\ error = Null
  /\ summary = Null /\ summaryLoading = FALSE /\ summaryError = Null
  /\ hsCodes = <<>> /\ hsLoading = FALSE /\ relevantHsCodes = <<>>
  /\ hsResp = NoHsResponse
  /\ searchStats = Null
  /\ matches = <<>> /\ sumPc = "idle" /\ attempt = 0
  /\ timerDelay = props.autoDelay /\ elapsed = 0
  /\ reqLog = <<>> /\ lookupResp = NoResponse /\ respLog = <<>> /\ waits = <<>>

\* time passes while a setTimeout is pending
Tick ==
  /\ \/ pc = "timer"
     \/ sumPc = "backoff"
  /\ elapsed < timerDelay
  /\ elapsed' = elapsed + TickMs
  /\ UNCHANGED <<box, props, mounted, pc, hooks, relevantHsCodes, hsResp, matches,
                 sumPc, attempt, timerDelay, reqLog, lookupResp, respLog,
                 waits, appVars, pageVars, chatVars>>

\* a cleanup that leaves the pending timer armed
clearTimeout_Forgotten(at) == at

\* return () => clearTimeout(t): a timer that has not fired never will, one
\* that has fired is not touched
clearTimeout(at) == IF at = "timer" THEN "cancelled" ELSE at

\* the cleanup of the effect, run when the box is unmounted
Unmount ==
  /\ mounted
  /\ mounted' = FALSE
  /\ pc' = clearTimeout(pc)
  /\ UNCHANGED <<box, props, hooks, relevantHsCodes, hsResp, matches, sumPc, attempt,
                 timerDelay, elapsed, reqLog, lookupResp, respLog, waits,
                 appVars, pageVars, chatVars>>

\* setTimeout(() => doLookup(), autoDelay) fires in a LookupBox: doLookup
\* runs up to its fetch.  doLookup is the one of the render the effect ran
\* in, whose query is still the initial state useState(initialQuery).
LookupBoxDoLookup ==
  /\ box \in LookupBoxes
  /\ pc = "timer" /\ elapsed >= timerDelay
  /\ loading' = TRUE /\ error' = Null /\ results' = Null
  /\ reqLog' = Append(reqLog, [ep |-> "lookup", query |-> props.initialQuery])
  /\ pc' = "lookup"
  /\ timerDelay' = 0 /\ elapsed' = 0
  /\ UNCHANGED <<box, props, mounted, query, summary, summaryLoading,
                 summaryError, csbVars, matches, sumPc, attempt, lookupResp,
                 respLog, waits, searchStats,
                 appVars, pageVars, chatVars>>

\* the length test left out: summarizeMatches(matches) for every answer
ShouldSummarize_Always(b, ms) == b # "LookupBox3"

\* if (matches.length > 0) summarizeMatches(matches); the third version of
\* LookupBox has this call commented out
ShouldSummarize(b, ms) == b # "LookupBox3" /\ Len(ms) > 0

\* summarizeMatches(matches) up to the first fetch of /api/bedrock
StartSummarize(ms) ==
  /\ summaryLoading' = TRUE /\ summary' = Null /\ summaryError' = Null
  /\ matches' = ms /\ sumPc' = "requesting" /\ attempt' = 0
  /\ reqLog' = Append(reqLog, [ep |-> "bedrock", query |-> <<>>])

\* doLookup of LookupBox from the answer of /api/lookup to its end
LookupBoxLookupResponds ==
  /\ box \in LookupBoxes
  /\ pc = "lookup"
  /\ \E r \in LookupResponses :
       /\ lookupResp' = r
       /\ IF r.kind = "ok"
          THEN /\ results' = List(r.matches)
               /\ error' = error
               /\ IF ShouldSummarize(box, r.matches)
                  THEN StartSummarize(r.matches)
                  ELSE /\ summary' = Null /\ summaryError' = Null
                       /\ UNCHANGED <<summaryLoading, matches, sumPc, attempt, reqLog>>
          ELSE /\ IF box = "LookupBox1"
                  THEN /\ error' = Notice("raw",
                                     CASE r.kind = "http" -> orDefault(r.detail, sLookupFailed)
                                       [] r.kind = "exception" -> sFailedToFetch
                                       [] OTHER -> sBadJson)
                       /\ UNCHANGED <<results, summary, summaryError>>
                  ELSE /\ results' = resultsOnFailure(results)
                       /\ summary' = Null /\ summaryError' = Null
                       /\ error' = error
               /\ UNCHANGED <<summaryLoading, matches, sumPc, attempt, reqLog>>
  /\ loading' = FALSE
  /\ pc' = "done"
  /\ UNCHANGED <<box, props, mounted, query, csbVars, timerDelay, elapsed,
                 respLog, waits, searchStats,
                 appVars, pageVars, chatVars>>

\* attemptSummarization from the answer of /api/bedrock on: success, a
\* retry scheduled after a throttling error, or the catch block and the
\* finally of summarizeMatches
BedrockResponds ==
  /\ sumPc = "requesting"
  /\ \E r \in BedrockResponses :
       /\ respLog' = Append(respLog, r)
       /\ IF r.kind = "ok"
          THEN /\ summary' = SuccessSummary /\ summaryError' = Null
               /\ summaryLoading' = FALSE /\ sumPc' = "done"
               /\ UNCHANGED <<timerDelay, elapsed>>
          ELSE IF ShouldRetry(box, ThrownMessage(box, r), attempt)
          THEN /\ sumPc' = "backoff"
               /\ timerDelay' = BackoffDelay(attempt) /\ elapsed' = 0
               /\ UNCHANGED <<summary, summaryError, summaryLoading>>
          ELSE /\ summaryError' = FailureNotice(box, ThrownMessage(box, r))
               /\ summary' = FailureSummary(box, matches, ThrownMessage(box, r))
               /\ summaryLoading' = FALSE /\ sumPc' = "done"
               /\ UNCHANGED <<timerDelay, elapsed>>
  /\ UNCHANGED <<box, props, mounted, pc, query, results, loading, error,
                 csbVars, matches, attempt, reqLog, lookupResp, waits, searchStats,
                 appVars, pageVars, chatVars>>

\* the backoff timer fires: return attemptSummarization(attempt + 1)
RetryAfterBackoff ==
  /\ sumPc = "backoff" /\ elapsed >= timerDelay
  /\ waits' = Append(waits, [delay |-> timerDelay, waited |-> elapsed])
  /\ attempt' = attempt + 1
  /\ reqLog' = Append(reqLog, [ep |-> "bedrock", query |-> <<>>])
  /\ sumPc' = "requesting"
  /\ timerDelay' = 0 /\ elapsed' = 0
  /\ UNCHANGED <<box, props, mounted, pc, hooks, relevantHsCodes, hsResp, matches,
                 lookupResp, respLog, appVars, pageVars, chatVars>>

\* ------------------------------------------------- CountrySummaryBox
\* autoDelay={idx * 500 + 1000} for the boxes at index 0 and 1
CountrySummaryBoxDelays == {1000, 1500}

\* data.hs_codes of an OK answer of /api/lookup-hs-codes: entries with a
\* code and a description; <<>> as code stands for an entry without one
hsLaptops == [code |-> v847130, description |-> "computers"]
hsNoCode == [code |-> <<>>, description |-> "other"]
HsLists == {<<>>, <<hsLaptops>>, <<hsNoCode>>}
HsResponses ==
  {[kind |-> "ok", hs_codes |-> h] : h \in HsLists}
    \cup {[kind |-> k, hs_codes |-> <<>>] : k \in {"okBadBody", "http", "exception"}}

\* the failure paths return a placeholder entry instead of []
lookupHSCodes_PlaceholderOnFailure(r) ==
  IF r.kind = "ok" THEN r.hs_codes ELSE <<hsNoCode>>

\* the return value of lookupHSCodes for an answer of /api/lookup-hs-codes
lookupHSCodes(r) == IF r.kind = "ok" THEN r.hs_codes ELSE <<>>

\* the word a code contributes to hsCodes.map(hs => hs.code).join(' '):
\* join writes a missing code as the empty string
codeWord(hs) == IF hs.code = <<>> THEN "" ELSE "8471.30"

\* createEnhancedQuery(originalQuery, hsCodes)
createEnhancedQuery(originalQuery, hs) ==
  IF Len(hs) = 0 THEN originalQuery
  ELSE originalQuery \o [i \in 1..Len(hs) |-> codeWord(hs[i])]
                     \o [i \in 1..Len(hs) |-> hs[i].description]

RECURSIVE concat(_)
concat(parts) == IF parts = <<>> THEN <<>> ELSE Head(parts) \o concat(Tail(parts))

\* JSON.stringify(rec) of a record whose values are strings
stringify(rec) ==
  <<"{">> \o concat([i \in 1..Len(rec.entries) |->
                      (IF i > 1 THEN <<",">> ELSE <<>>)
                        \o <<"\"">> \o rec.entries[i][1] \o <<"\"", ":", "\"">>
                        \o rec.entries[i][2] \o <<"\"">>])
         \o <<"}">>

\* String.prototype.replace('.', ''): the first '.' removed
removeFirstDot(t) ==
  IF \E i \in 1..Len(t) : t[i] = "."
  THEN LET i == CHOOSE k \in 1..Len(t) : t[k] = "." /\ \A j \in 1..(k - 1) : t[j] # "."
       IN  SubSeq(t, 1, i - 1) \o SubSeq(t, i + 1, Len(t))
  ELSE t

\* recordText.includes(hs.code.replace('.', '')) || recordText.includes(hs.code)
hsMatchesRecord(rec, hs) ==
  LET recordText == toLowerCase(stringify(rec))
  IN  includes(recordText, removeFirstDot(hs.code)) \/ includes(recordText, hs.code)

\* hsCodes.some(hs => ...) throws a TypeError when it reaches an entry
\* without a code before an entry that matches the record
someThrows(rec, hs) ==
  \E i \in 1..Len(hs) :
    /\ hs[i].code = <<>>
    /\ \A j \in 1..(i - 1) : ~hsMatchesRecord(rec, hs[j])

\* whether the try block of generateEnhancedSummary(matches, hsCodes) throws
enhancedSummaryThrows(ms, hs) ==
  \E i \in 1..Len(ms) :
    ms[i].record.type = "object" /\ Len(hs) > 0 /\ someThrows(ms[i].record, hs)

\* const hsMatches = matches.filter(...); only evaluated when nothing throws
hsMatches(ms, hs) ==
  SelectSeq(ms, LAMBDA m : /\ m.record.type = "object" /\ Len(hs) > 0
                           /\ \E i \in 1..Len(hs) : hsMatchesRecord(m.record, hs[i]))

\* the catch block of generateEnhancedSummary without its call of
\* generateFallbackSummary
EnhancedSummary_NoFallback(ms, hs) ==
  IF enhancedSummaryThrows(ms, hs)
  THEN Null
  ELSE Summary("enhanced", hsMatches(ms, hs), Len(ms))

\* the summary and summaryError that generateEnhancedSummary leaves; of the
\* text of the summary the model keeps the record count and the number of
\* records that match an HS code
EnhancedSummary(ms, hs) ==
  IF enhancedSummaryThrows(ms, hs)
  THEN Summary("fallback", <<>>, Len(ms))
  ELSE Summary("enhanced", hsMatches(ms, hs), Len(ms))
EnhancedNotice(ms, hs) ==
  IF enhancedSummaryThrows(ms, hs) THEN Notice("enhancedUnavailable", <<>>) ELSE Null

\* errorDetail.includes('not found') || errorDetail.includes('No such')
IsNotFoundText(errorDetail) ==
  includes(errorDetail, sNotFound) \/ includes(errorDetail, sNoSuch)

\* function CountrySummaryBox({ ..., country = null, autoDelay = 0 }): the
\* country a box is given, "" standing for a missing one
CountryProps == Countries \cup {""}

\* a CountrySummaryBox after its first render and the run of its effect:
\* if (!query?.trim() || !country) return, else the lookup is scheduled
InitCountrySummaryBox ==
  /\ box = "CountrySummaryBox"
  /\ props \in [initialQuery : InitialQueries, country : CountryProps,
                autoDelay : CountrySummaryBoxDelays]
  /\ mounted = TRUE
  /\ query = props.initialQuery
  /\ pc = IF query = <<>> \/ props.country = "" THEN "idle" ELSE "timer"
  /\ results = Null /\ loading = FALSE /\ error = Null
  /\ summary = Null /\ summaryLoading = FALSE /\ summaryError = Null
  /\ hsCodes = <<>> /\ hsLoading = FALSE /\ relevantHsCodes = <<>>
  /\ hsResp = NoHsResponse
  /\ searchStats = Null
  /\ matches = <<>> /\ sumPc = "idle" /\ attempt = 0
  /\ timerDelay = (IF pc = "idle" THEN 0 ELSE props.autoDelay) /\ elapsed = 0
  /\ reqLog = <<>> /\ lookupResp = NoResponse /\ respLog = <<>> /\ waits = <<>>

\* the timer fires: doLookup of CountrySummaryBox up to the fetch of
\* /api/lookup-hs-codes inside lookupHSCodes
CountrySummaryBoxDoLookup ==
  /\ box = "CountrySummaryBox"
  /\ pc = "timer" /\ elapsed >= timerDelay
  /\ query # <<>> /\ props.country # ""
  /\ loading' = TRUE /\ results' = Null /\ summary' = Null /\ summaryError' = Null
  /\ hsLoading' = TRUE
  /\ reqLog' = Append(reqLog, [ep |-> "lookup-hs-codes", query |-> query])
  /\ pc' = "hs"
  /\ timerDelay' = 0 /\ elapsed' = 0
  /\ UNCHANGED <<box, props, mounted, query, error, summaryLoading, hsCodes,
                 relevantHsCodes, hsResp, matches, sumPc, attempt, lookupResp,
                 respLog, waits, searchStats,
                 appVars, pageVars, chatVars>>

\* lookupHSCodes from the answer of /api/lookup-hs-codes to its end, and
\* doLookup up to the fetch of /api/lookup
HsCodesRespond ==
  /\ box = "CountrySummaryBox"
  /\ pc = "hs"
  /\ \E r \in HsResponses :
       /\ hsCodes' = IF r.kind = "ok" THEN r.hs_codes ELSE hsCodes
       /\ relevantHsCodes' = lookupHSCodes(r)
       /\ hsResp' = r
       /\ reqLog' = Append(reqLog,
            [ep |-> "lookup", query |-> createEnhancedQuery(query, lookupHSCodes(r))])
  /\ hsLoading' = FALSE
  /\ pc' = "lookup"
  /\ UNCHANGED <<box, props, mounted, query, results, loading, error, summary,
                 summaryLoading, summaryError, matches, sumPc, attempt,
                 timerDelay, elapsed, lookupResp, respLog, waits, searchStats,
                 appVars, pageVars, chatVars>>

\* doLookup of CountrySummaryBox from the answer of /api/lookup to its end,
\* the summary generator it calls included
CountrySummaryBoxLookupResponds ==
  /\ box = "CountrySummaryBox"
  /\ pc = "lookup"
  /\ \E r \in LookupResponses :
       /\ lookupResp' = r
       /\ CASE r.kind = "ok" /\ Len(r.matches) > 0 ->
                 /\ results' = List(r.matches)
                 /\ summary' = EnhancedSummary(r.matches, relevantHsCodes)
                 /\ summaryError' = EnhancedNotice(r.matches, relevantHsCodes)
            [] r.kind = "ok" /\ Len(r.matches) = 0 ->
                 /\ results' = List(<<>>)
                 /\ summary' = Summary("noData", <<>>, 0)
                 /\ summaryError' = summaryError
            [] r.kind = "http"
                 /\ (r.status = 404 \/ IsNotFoundText(orDefault(r.detail, sNoDataAvailable))) ->
                 /\ results' = resultsOnFailure(results)
                 /\ summary' = Summary("noData", <<>>, 0)
                 /\ summaryError' = summaryError
            [] OTHER ->
                 /\ results' = resultsOnFailure(results)
                 /\ summary' = Summary("dataUnavailable", <<>>, 0)
                 /\ summaryError' = summaryError
  /\ summaryLoading' = FALSE
  /\ loading' = FALSE
  /\ pc' = "done"
  /\ UNCHANGED <<box, props, mounted, query, error, csbVars, matches, sumPc,
                 attempt, timerDelay, elapsed, reqLog, respLog, waits, searchStats,
                 appVars, pageVars, chatVars>>

\* --------------------------------------------------- GlobalSearchBox
\* autoDelay={100}
GlobalSearchBoxDelay == 100

sSearchFailed == <<"S","e","a","r","c","h"," ","f","a","i","l","e","d">>

\* data.sources_searched of an OK answer of /api/search-all; 0 also stands
\* for an answer without the field (data.sources_searched || 0)
SourcesSearched == {0, 3}

\* what the request to /api/search-all can come back with
SearchResponses ==
  {[kind |-> "ok", status |-> 200, detail |-> <<>>, matches |-> m, sources_searched |-> n] :
      m \in MatchLists, n \in SourcesSearched}
    \cup {[kind |-> k, status |-> 0, detail |-> <<>>, matches |-> <<>>, sources_searched |-> 0] :
            k \in {"okBadBody", "exception"}}
    \cup {[kind |-> "http", status |-> st, detail |-> d, matches |-> <<>>, sources_searched |-> 0] :
            st \in {404, 500}, d \in LookupDetails}

\* setSearchStats({ sources_searched: n, ... })
Stats(n) == [kind |-> "stats", sources_searched |-> n]

\* a GlobalSearchBox after its first render and the run of its effect:
\* if (initialQuery?.trim()) { setQuery(initialQuery.trim()); setTimeout(...) }
InitGlobalSearchBox ==
  /\ box = "GlobalSearchBox"
  /\ props \in [initialQuery : InitialQueries, country : {""},
                autoDelay : {GlobalSearchBoxDelay}]
  /\ mounted = TRUE
  /\ query = props.initialQuery
  /\ pc = IF props.initialQuery = <<>> THEN "idle" ELSE "timer"
  /\ results = Null /\ loading = FALSE /\ error = Null
  /\ summary = Null /\ summaryLoading = FALSE /\ summaryError = Null
  /\ hsCodes = <<>> /\ hsLoading = FALSE /\ relevantHsCodes = <<>>
  /\ hsResp = NoHsResponse
  /\ searchStats = Null
  /\ matches = <<>> /\ sumPc = "idle" /\ attempt = 0
  /\ timerDelay = (IF props.initialQuery = <<>> THEN 0 ELSE props.autoDelay)
  /\ elapsed = 0
  /\ reqLog = <<>> /\ lookupResp = NoResponse /\ respLog = <<>> /\ waits = <<>>

\* the timer fires: doGlobalSearch up to the fetch of /api/search-all
GlobalSearchBoxDoGlobalSearch ==
  /\ box = "GlobalSearchBox"
  /\ pc = "timer" /\ elapsed >= timerDelay
  /\ loading' = TRUE /\ error' = Null /\ results' = Null /\ searchStats' = Null
  /\ reqLog' = Append(reqLog, [ep |-> "search-all", query |-> props.initialQuery])
  /\ pc' = "lookup"
  /\ timerDelay' = 0 /\ elapsed' = 0
  /\ UNCHANGED <<box, props, mounted, query, summary, summaryLoading,
                 summaryError, csbVars, matches, sumPc, attempt, lookupResp,
                 respLog, waits, appVars, pageVars, chatVars>>

\* doGlobalSearch from the answer of /api/search-all to its end
GlobalSearchResponds ==
  /\ box = "GlobalSearchBox"
  /\ pc = "lookup"
  /\ \E r \in SearchResponses :
       /\ lookupResp' = [kind |-> r.kind, status |-> r.status, detail |-> r.detail,
                         matches |-> r.matches]
       /\ CASE r.kind = "ok" ->
                 /\ results' = List(r.matches)
                 /\ searchStats' = Stats(r.sources_searched)
                 /\ summary' = Null /\ summaryError' = Null
            [] r.kind = "http" ->
                 /\ results' = resultsOnFailure(results)
                 /\ searchStats' = Stats(0)
                 /\ UNCHANGED <<summary, summaryError>>
            [] OTHER ->
                 /\ results' = resultsOnFailure(results)
                 /\ searchStats' = Stats(0)
                 /\ summary' = Null /\ summaryError' = Null
  /\ loading' = FALSE
  /\ pc' = "done"
  /\ UNCHANGED <<box, props, mounted, query, error, summaryLoading, csbVars,
                 matches, sumPc, attempt, timerDelay, elapsed, reqLog, respLog,
                 waits, appVars, pageVars, chatVars>>

\* the form is not part of the results page
NoForm ==
  /\ form = "none" /\ exportLocations = <<>>
  /\ lastToggled = "" /\ prevToggled = "" /\ beforeLast = {} /\ beforePrev = {}
  /\ route = "/results" /\ navState = Null /\ alerts = 0

\* no results page around the box that is followed
NoPage ==
  /\ pageVersion = "none"
  /\ locationState = [globalSearchMode |-> FALSE, exportLocations |-> <<>>,
                      companyDetails |-> <<>>]
  /\ children = <<>> /\ now = 0 /\ pageLog = <<>>

\* the chat widget is not followed
NoChat ==
  /\ chatMessages = <<>> /\ inputValue = <<>> /\ isTyping = FALSE
  /\ runs = <<>> /\ chatEvent = "none"

InitBox ==
  /\ InitLookupBox \/ InitCountrySummaryBox \/ InitGlobalSearchBox
  /\ NoForm /\ NoPage /\ NoChat

NextBox ==
  \/ Tick
  \/ Unmount
  \/ LookupBoxDoLookup
  \/ LookupBoxLookupResponds
  \/ CountrySummaryBoxDoLookup
  \/ HsCodesRespond
  \/ CountrySummaryBoxLookupResponds
  \/ GlobalSearchBoxDoGlobalSearch
  \/ GlobalSearchResponds
  \/ BedrockResponds
  \/ RetryAfterBackoff

SpecBox == InitBox /\ [][NextBox]_vars

\* ---------------------------------------------------------------- render
\* {(loading || (results === null && !error)) && <div>Loading...</div>}
ShowsLoading ==
  IF box \in LookupBoxes THEN loading \/ (results = Null /\ error = Null)
  ELSE loading

\* {error && <div className="text-sm text-red-400">{error}</div>}
ShowsError == box = "LookupBox1" /\ error # Null

\* {!results && !loading && <div>No tariff data available ...</div>}
ShowsNoData == box \in {"LookupBox2", "LookupBox3"} /\ results = Null /\ ~loading

\* {results && results.length === 0 && !loading && <div>No tariff matches
\* found ...</div>}; in the first version {results.length === 0 && <div>No
\* matches found.</div>} inside {results && ...}; in GlobalSearchBox
\* {results && results.length === 0 && !loading && searchStats &&
\* searchStats.sources_searched > 0 && <div>No matches found across ...</div>}
ShowsNoMatches ==
  /\ results # Null
  /\ Len(results.items) = 0
  /\ box = "LookupBox1" \/ ~loading
  /\ box = "GlobalSearchBox" => (searchStats # Null /\ searchStats.sources_searched > 0)

\* GlobalSearchBox: {results && results.length > 0 && <div>Global Search
\* Results ...</div>}
ShowsResultList == box = "GlobalSearchBox" /\ results # Null /\ Len(results.items) > 0

\* GlobalSearchBox: {!results && !loading && searchStats &&
\* searchStats.sources_searched === 0 && <div>No trade data sources found
\* in the database.</div>}; an empty array is not falsy
ShowsNoSources ==
  /\ box = "GlobalSearchBox"
  /\ results = Null /\ ~loading
  /\ searchStats # Null /\ searchStats.sources_searched = 0

\* {summaryError && ...}, inside the result block in every LookupBox
ShowsSummaryError ==
  /\ summaryError # Null
  /\ box = "LookupBox1" => results # Null
  /\ box \in {"LookupBox2", "LookupBox3"} => (results # Null /\ Len(results.items) > 0)

\* ------------------------------------------------------ property vocabulary
\* number of requests sent to /api/bedrock so far
BedrockCalls == Cardinality({i \in 1..Len(reqLog) : reqLog[i].ep = "bedrock"})

\* a rate-limit signal: a non-OK answer whose detail text contains one of
\* 'ThrottlingException', 'Too many requests', 'rate limit'
IsRateLimit(r) ==
  r.kind = "http" /\ IsThrottleText(orDefault(r.detail, sSummarizationFailed))

\* the versions of summarizeMatches that implement the retry policy
RetryingBoxes == {"LookupBox2", "LookupBox3"}

\* C1: when every answer of the text-generation service is a rate-limit
\* error, a finished run of summarizeMatches has sent exactly 3 requests
\* (1 initial + 2 retries) and has then taken the fallback path; no run
\* sends more than 3 requests.
C1_ThreeRequestsWhenThrottled ==
  /\ box \in RetryingBoxes => BedrockCalls <= 3
  /\ (/\ box \in RetryingBoxes
      /\ sumPc = "done"
      /\ \A i \in 1..Len(respLog) : IsRateLimit(respLog[i]))
     => /\ BedrockCalls = 3 /\ Len(respLog) = 3 /\ Len(waits) = 2
        /\ summaryError # Null /\ ~summaryLoading
  /\ (/\ box \in RetryingBoxes
      /\ sumPc # "idle"
      /\ Len(respLog) < 3
      /\ \A i \in 1..Len(respLog) : IsRateLimit(respLog[i]))
     => sumPc # "done"

C1_Witness ==
  /\ box = "LookupBox2" /\ sumPc = "done" /\ BedrockCalls = 3
  /\ \A i \in 1..Len(respLog) : IsRateLimit(respLog[i])

\* C2: a failed answer that is not a rate-limit signal ends the run at
\* once: it is the last answer, no request and no backoff wait follows it,
\* and when it is the first answer the run has sent exactly 1 request.
C2_NoRetryOnOtherErrors ==
  \A i \in 1..Len(respLog) :
    (box \in RetryingBoxes /\ respLog[i].kind # "ok" /\ ~IsRateLimit(respLog[i]))
      => /\ i = Len(respLog)
         /\ BedrockCalls = i
         /\ Len(waits) = i - 1
         /\ sumPc = "done"

\* a state of an ended summarization
Ended == sumPc = "done"
Succeeded == Ended /\ respLog[Len(respLog)].kind = "ok"
Failed == Ended /\ respLog[Len(respLog)].kind # "ok"

\* C3: a run of summarizeMatches is in the loading state (summaryLoading,
\* no summary, no summaryError) until it ends, and it ends with
\* summaryLoading = false either in success (summary set, summaryError
\* null) or in failure (summaryError set and a fallback summary set).
C3_LoadingThenOneOutcome ==
  /\ (box \in RetryingBoxes /\ sumPc \in {"requesting", "backoff"})
       => summaryLoading /\ summary = Null /\ summaryError = Null
  /\ (box \in RetryingBoxes /\ Ended)
       => /\ ~summaryLoading
          /\ \/ Succeeded /\ summary # Null /\ summaryError = Null
             \/ Failed /\ summary # Null /\ summaryError # Null

\* C4: when the summarization has ended in failure, the summary is the
\* extract of the known fields of matches[0].record, and it is not absent.
C4_FallbackIsExtract ==
  (box \in RetryingBoxes /\ Failed)
    => /\ summary # Null
       /\ summary.kind \in {"keyFindings", "foundInfo"}
       /\ summary.data = relevantData(matches)
       /\ summary.data # <<>>

\* C6: the wait before the n-th retry is min(1000 * 2^(n-1), 8000) ms, that
\* is 1000 ms and then 2000 ms, never more than 8000 ms, and the retry
\* request is not sent before that wait has elapsed.
C6_BackoffDelays ==
  /\ \A n \in 1..Len(waits) :
       /\ waits[n].delay = (IF n = 1 THEN 1000 ELSE 2000)
       /\ waits[n].delay <= 8000
       /\ waits[n].waited >= waits[n].delay
  /\ Len(waits) <= 2
  /\ box \in RetryingBoxes => BedrockCalls <= 1 + Len(waits)
  /\ sumPc = "backoff" => timerDelay = (IF attempt = 0 THEN 1000 ELSE 2000)

C6_Witness == Len(waits) = 2 /\ sumPc = "requesting"

\* C7: after a lookup that returned an empty match list, no request to
\* /api/bedrock has been sent, summary and summaryError are null, and the
\* box shows its 'no matches' panel (and no loading indicator).
C7_EmptyMatchesNoSummary ==
  (/\ box \in LookupBoxes
   /\ pc = "done"
   /\ lookupResp.kind = "ok" /\ lookupResp.matches = <<>>)
  => /\ BedrockCalls = 0
     /\ summary = Null /\ summaryError = Null /\ ~summaryLoading
     /\ mounted => (ShowsNoMatches /\ ~ShowsLoading /\ ~ShowsNoData /\ ~ShowsError)

C7_Witness ==
  /\ box = "LookupBox2" /\ pc = "done" /\ mounted
  /\ lookupResp.kind = "ok" /\ lookupResp.matches = <<>>

\* C8: after /api/lookup has answered 404, results is the empty list, no
\* error is set, and the box shows its 'no data' panel and no error text.
C8_NotFoundShowsNoData ==
  (/\ box \in LookupBoxes \cup {"CountrySummaryBox"}
   /\ pc = "done" /\ lookupResp.kind = "http" /\ lookupResp.status = 404)
  => /\ results = List(<<>>)
     /\ error = Null /\ summaryError = Null
     /\ mounted => (ShowsNoMatches /\ ~ShowsError /\ ~ShowsSummaryError /\ ~ShowsLoading)

\* C5: provided every request is answered and every timer fires, a run of
\* summarizeMatches that has sent a request reaches an end state (success,
\* or failure with summaryError set) with summaryLoading = false, and it
\* never sends more than 3 requests on the way.
C5_Terminates ==
  /\ [](box \in RetryingBoxes => BedrockCalls <= 3)
  /\ (sumPc \in {"requesting", "backoff"})
       ~> (/\ sumPc = "done" /\ ~summaryLoading
           /\ (Succeeded /\ summary # Null) \/ (Failed /\ summaryError # Null))

C5_Witness == Succeeded /\ Len(waits) = 2 /\ ~summaryLoading

\* every request is answered and every pending timer fires
SpecBoxFair ==
  /\ SpecBox
  /\ WF_vars(Tick) /\ WF_vars(BedrockResponds) /\ WF_vars(RetryAfterBackoff)
  /\ WF_vars(LookupBoxLookupResponds)
  /\ WF_vars(HsCodesRespond) /\ WF_vars(CountrySummaryBoxLookupResponds)

\* ------------------------------------------- the country-aware pipeline
\* position in reqLog of the first request to endpoint ep, 0 when none
FirstRequest(ep) ==
  IF \E i \in 1..Len(reqLog) : reqLog[i].ep = ep
  THEN CHOOSE i \in 1..Len(reqLog) :
         reqLog[i].ep = ep /\ \A j \in 1..(i - 1) : reqLog[j].ep # ep
  ELSE 0

\* C11: in a CountrySummaryBox the requests go out in the order HS-code
\* lookup, tariff lookup, summarization: /api/lookup is not requested before
\* /api/lookup-hs-codes has been answered, no summary exists before
\* /api/lookup has been answered, and a lookup that ended with a non-empty
\* match list has been followed by a request to /api/bedrock.
C11_PipelineOrder ==
  box = "CountrySummaryBox" =>
    /\ FirstRequest("lookup") > 0
         => /\ 0 < FirstRequest("lookup-hs-codes")
            /\ FirstRequest("lookup-hs-codes") < FirstRequest("lookup")
            /\ ~hsLoading /\ pc # "hs"
    /\ summary # Null => lookupResp.kind # "none"
    /\ FirstRequest("bedrock") > 0 => FirstRequest("lookup") < FirstRequest("bedrock")
    /\ (pc = "done" /\ lookupResp.kind = "ok" /\ Len(lookupResp.matches) > 0)
         => FirstRequest("bedrock") > 0

\* C12: after a failed search request (a non-OK answer of any status, a
\* rejected fetch, or an answer whose body cannot be read) the box has
\* loading = false, results = [] and no error state, and it shows neither
\* the loading indicator nor an error text.
C12_LookupFailureNotFatal ==
  (/\ box \in {"LookupBox2", "LookupBox3", "CountrySummaryBox", "GlobalSearchBox"}
   /\ pc = "done" /\ lookupResp.kind # "ok")
  => /\ ~loading
     /\ results = List(<<>>)
     /\ error = Null /\ summaryError = Null
     /\ mounted => (~ShowsLoading /\ ~ShowsError /\ ~ShowsSummaryError)

C12_Witness ==
  /\ box = "GlobalSearchBox" /\ pc = "done" /\ mounted
  /\ lookupResp.kind = "http" /\ lookupResp.status = 500

\* the answer that ended the summarization
LastAnswer == respLog[Len(respLog)]

\* C13: after a summarization that failed on a rate-limit answer,
\* summaryError is the fixed 'temporarily busy' notice and carries no error
\* text; after one that failed on any other error, summaryError carries the
\* message of that error and the summary is an extract of the fields of the
\* match data.
C13_FailureNotices ==
  (box \in RetryingBoxes /\ Failed) =>
    IF IsRateLimit(LastAnswer)
    THEN /\ summaryError # Null
         /\ summaryError.kind \in {"aiBusy", "serviceBusy"}
         /\ summaryError.msg = <<>>
    ELSE /\ summaryError # Null
         /\ summaryError.kind \in {"analysisFailed", "raw"}
         /\ summaryError.msg = ThrownMessage(box, LastAnswer)
         /\ summary # Null
         /\ summary.data # <<>>
         /\ summary.data = relevantData(matches)

\* C15: the /api/lookup request of the auto-run lookup of a LookupBox
\* carries the combined query (the initial query followed by the country),
\* which is the query held by the state hook when the request is sent.
C15_AutoRunSendsCombinedQuery ==
  box \in LookupBoxes =>
    \A i \in 1..Len(reqLog) :
      reqLog[i].ep = "lookup"
        => /\ reqLog[i].query = trimmed(props)
           /\ reqLog[i].query = query

\* C16: after a global search has ended, the box shows exactly one of its
\* three panels: the result list, 'No trade data sources found', or 'No
\* matches found across N data sources'.
C16_OnePanelAfterGlobalSearch ==
  (box = "GlobalSearchBox" /\ pc = "done" /\ ~loading /\ mounted)
  => \/ ShowsResultList /\ ~ShowsNoSources /\ ~ShowsNoMatches
     \/ ~ShowsResultList /\ ShowsNoSources /\ ~ShowsNoMatches
     \/ ~ShowsResultList /\ ~ShowsNoSources /\ ShowsNoMatches

\* the query of the /api/lookup request of the box
LookupQuery == reqLog[FirstRequest("lookup")].query

\* C17: in a CountrySummaryBox an HS-code lookup that failed (non-OK
\* answer, rejected fetch, unreadable body) is followed by the tariff
\* lookup with the original query; the query is extended, by the codes and
\* the descriptions, exactly when at least one HS code was returned.
C17_HsFailureKeepsQuery ==
  (box = "CountrySummaryBox" /\ hsResp.kind # "none") =>
    /\ FirstRequest("lookup") > 0
    /\ (hsResp.kind # "ok" \/ Len(hsResp.hs_codes) = 0) => LookupQuery = query
    /\ (hsResp.kind = "ok" /\ Len(hsResp.hs_codes) > 0) =>
         LookupQuery = query
                         \o [i \in 1..Len(hsResp.hs_codes) |-> codeWord(hsResp.hs_codes[i])]
                         \o [i \in 1..Len(hsResp.hs_codes) |-> hsResp.hs_codes[i].description]

\* a failed HS-code lookup was followed by the tariff lookup
C17_Witness ==
  /\ box = "CountrySummaryBox" /\ hsResp.kind \in {"http", "exception"}
  /\ FirstRequest("lookup") > 0 /\ pc = "done"

\* the i-th answer of /api/bedrock was followed by a retry
Retried(i) == BedrockCalls > i \/ (i = Len(respLog) /\ sumPc = "backoff")

\* C18: a failed answer of /api/bedrock that arrives while retries are left
\* is retried if and only if it is a non-OK answer whose detail text
\* contains 'ThrottlingException', 'Too many requests' or 'rate limit',
\* whatever its status code; a non-OK answer without such a detail, an
\* unreadable body and a rejected fetch are never retried.
C18_RetryIffThrottleDetail ==
  box \in RetryingBoxes =>
    \A i \in 1..Len(respLog) :
      /\ (respLog[i].kind # "ok" /\ i <= Retries)
           => (Retried(i) <=> IsRateLimit(respLog[i]))
      /\ (respLog[i].kind # "ok" /\ ~IsRateLimit(respLog[i])) => ~Retried(i)

\* C21: a LookupBox never displays more than one of the 'Loading...'
\* indicator, the 'No tariff data available' panel and the 'No tariff
\* matches found' panel, the state after mount and before the auto-run timer
\* fires included.
C21_AtMostOneStatusPanel ==
  box \in LookupBoxes =>
    /\ ~(ShowsLoading /\ ShowsNoData)
    /\ ~(ShowsLoading /\ ShowsNoMatches)
    /\ ~(ShowsNoData /\ ShowsNoMatches)

\* C22: a run of CountrySummaryBox.doLookup that has started ends with
\* loading, hsLoading and summaryLoading false and with results and summary
\* set, whatever the answers of /api/lookup-hs-codes and /api/lookup were;
\* a box with an empty query or no country sends no request and changes no
\* state.
C22_RunEndsSettled ==
  box = "CountrySummaryBox" =>
    /\ pc = "done" =>
         /\ ~loading /\ ~hsLoading /\ ~summaryLoading
         /\ results # Null /\ summary # Null
    /\ (query = <<>> \/ props.country = "") =>
         /\ reqLog = <<>>
         /\ results = Null /\ summary = Null /\ summaryError = Null
         /\ ~loading /\ ~hsLoading /\ ~summaryLoading /\ hsCodes = <<>>

\* a run has ended after a rejected HS-code request and a tariff request
\* answered with an HTTP error
C22_Witness ==
  /\ box = "CountrySummaryBox" /\ pc = "done"
  /\ hsResp.kind = "exception" /\ lookupResp.kind = "http"

\* the requests in reqLog that start a lookup: the first request the
\* timer callback of the box sends
Starts ==
  LET first == CASE box \in LookupBoxes -> "lookup"
                 [] box = "CountrySummaryBox" -> "lookup-hs-codes"
                 [] OTHER -> "search-all"
  IN  Cardinality({i \in 1..Len(reqLog) : reqLog[i].ep = first})

\* C23: when a LookupBox, CountrySummaryBox or GlobalSearchBox is unmounted
\* before its auto-run delay has elapsed, the pending timer is cancelled and
\* its lookup is never issued; an effect run starts at most one lookup.
C23_CancelledTimerNeverFires ==
  /\ [](Starts <= 1)
  /\ [](pc = "cancelled" => reqLog = <<>>)
  /\ [][~mounted => Starts' = Starts]_vars

\* a box was unmounted while its timer was pending, part of the delay
\* having passed
C23_Witness == ~mounted /\ pc = "cancelled" /\ elapsed > 0 /\ elapsed < timerDelay

\* ------------------------------------------------------------- the form
\* const europeanUnionMembers = [...]
AllEuropeanUnionMembers ==
  <<"Austria", "Belgium", "Bulgaria", "Croatia", "Cyprus", "Czech Republic",
    "Denmark", "Estonia", "Finland", "France", "Germany", "Greece", "Hungary",
    "Ireland", "Italy", "Latvia", "Lithuania", "Luxembourg", "Malta",
    "Netherlands", "Poland", "Portugal", "Romania", "Slovakia", "Slovenia",
    "Spain", "Sweden">>
\* the members kept in the model
europeanUnionMembers == SubSeq(AllEuropeanUnionMembers, 1, MaxMembers)

\* const exportCountries = [...], without 'European Union'
OrdinaryExportCountries ==
  <<"Australia", "Belize", "Ghana", "Hong Kong", "Malaysia", "Singapore",
    "South Africa", "Taiwan", "United States">>
\* the entries of the list the form renders that are kept in the model
exportCountries ==
  SubSeq(OrdinaryExportCountries, 1, MaxOrdinary) \o <<"European Union">>

Range(a) == {a[i] : i \in 1..Len(a)}

\* Set.prototype.has / add / delete on a Set kept in insertion order
has(a, x) == x \in Range(a)
\* an add that appends without looking
add_Always(a, x) == Append(a, x)
\* Set.prototype.add keeps one copy of each value, in insertion order
add(a, x) == IF has(a, x) THEN a ELSE Append(a, x)
delete(a, x) == SelectSeq(a, LAMBDA y : y # x)

\* new Set(prev.exportLocations): the first occurrence of each entry
RECURSIVE newSet(_)
newSet(a) ==
  IF a = <<>> THEN <<>>
  ELSE add(newSet(SubSeq(a, 1, Len(a) - 1)), a[Len(a)])

\* europeanUnionMembers.forEach(member => next.add(member))
RECURSIVE addAll(_, _)
addAll(a, list) ==
  IF list = <<>> THEN a ELSE addAll(add(a, list[1]), Tail(list))

\* europeanUnionMembers.forEach(member => next.delete(member))
RECURSIVE deleteAll(_, _)
deleteAll(a, list) ==
  IF list = <<>> THEN a ELSE deleteAll(delete(a, list[1]), Tail(list))

\* europeanUnionMembers.every(member => next.has(member))
allMembers(a) == \A i \in 1..Len(europeanUnionMembers) : has(a, europeanUnionMembers[i])

\* the else branch that unmarks 'European Union' left out
toggleExportLocation_NoUnmark(prev, country) ==
  LET next == newSet(prev) IN
  IF country = "European Union"
  THEN IF allMembers(next) /\ has(next, "European Union")
       THEN delete(deleteAll(next, europeanUnionMembers), "European Union")
       ELSE add(addAll(next, europeanUnionMembers), "European Union")
  ELSE LET toggled == IF has(next, country) THEN delete(next, country)
                      ELSE add(next, country)
       IN  IF has(europeanUnionMembers, country) /\ allMembers(toggled)
           THEN add(toggled, "European Union")
           ELSE toggled

\* the updater of toggleExportLocation(country): the next exportLocations
toggleExportLocation(prev, country) ==
  LET next == newSet(prev) IN
  IF country = "European Union"
  THEN IF allMembers(next) /\ has(next, "European Union")
       THEN delete(deleteAll(next, europeanUnionMembers), "European Union")
       ELSE add(addAll(next, europeanUnionMembers), "European Union")
  ELSE LET toggled == IF has(next, country) THEN delete(next, country)
                      ELSE add(next, country)
       IN  IF has(europeanUnionMembers, country)
           THEN IF allMembers(toggled) THEN add(toggled, "European Union")
                ELSE delete(toggled, "European Union")
           ELSE toggled

\* the inline onClick of the earlier form: filter out, or append
simpleToggle(prev, country) ==
  IF has(prev, country) THEN SelectSeq(prev, LAMBDA c : c # country)
  ELSE Append(prev, country)

\* the countries a toggle can be called with: the rendered list and, for
\* toggleExportLocation, the member states its code provides for
ToggleDomain(f) ==
  IF f = "App" THEN Range(exportCountries) \cup Range(europeanUnionMembers)
  ELSE Range(exportCountries)

Forms == {"App", "App0"}

\* the lookup box is not part of the form
NoBox ==
  /\ box = "none"
  /\ props = [initialQuery |-> <<>>, country |-> "", autoDelay |-> 0]
  /\ mounted = FALSE /\ pc = "idle" /\ query = <<>>
  /\ results = Null /\ loading = FALSE /\ error = Null
  /\ summary = Null /\ summaryLoading = FALSE /\ summaryError = Null
  /\ hsCodes = <<>> /\ hsLoading = FALSE /\ relevantHsCodes = <<>>
  /\ hsResp = NoHsResponse
  /\ searchStats = Null
  /\ matches = <<>> /\ sumPc = "idle" /\ attempt = 0
  /\ timerDelay = 0 /\ elapsed = 0
  /\ reqLog = <<>> /\ lookupResp = NoResponse /\ respLog = <<>> /\ waits = <<>>

\* useState({ ..., exportLocations: [] })
InitApp ==
  /\ NoBox /\ NoPage /\ NoChat
  /\ form \in Forms
  /\ exportLocations = <<>>
  /\ lastToggled = "" /\ prevToggled = "" /\ beforeLast = {} /\ beforePrev = {}
  /\ route = "/" /\ navState = Null /\ alerts = 0

\* a click on a country: toggleExportLocation(country), or the inline
\* onClick of the earlier form
ToggleExportLocation ==
  /\ form \in Forms /\ route = "/"
  /\ \E country \in ToggleDomain(form) :
       /\ exportLocations' = IF form = "App"
                             THEN toggleExportLocation(exportLocations, country)
                             ELSE simpleToggle(exportLocations, country)
       /\ lastToggled' = country
  /\ prevToggled' = lastToggled
  /\ beforeLast' = Range(exportLocations)
  /\ beforePrev' = beforeLast
  /\ UNCHANGED <<form, route, navState, alerts, boxVars, pageVars, chatVars>>

\* the validation left out: every submit navigates
submitAccepted_NoValidation(locations) == TRUE

\* if (formData.exportLocations.length === 0) { alert(...); return }
submitAccepted(locations) == Len(locations) # 0

\* the submit of the form: handleSubmit
HandleSubmit ==
  /\ form \in Forms /\ route = "/"
  /\ IF submitAccepted(exportLocations)
     THEN /\ route' = "/results"
          /\ navState' = [kind |-> "formData", exportLocations |-> exportLocations]
          /\ alerts' = alerts
     ELSE /\ alerts < MaxAlerts
          /\ alerts' = alerts + 1
          /\ UNCHANGED <<route, navState>>
  /\ UNCHANGED <<form, exportLocations, lastToggled, prevToggled, beforeLast,
                 beforePrev, boxVars, pageVars, chatVars>>

NextApp == ToggleExportLocation \/ HandleSubmit

SpecApp == InitApp /\ [][NextApp]_vars

EUMembers == Range(europeanUnionMembers)

C10_UmbrellaFollowsMembers ==
  (form = "App" /\ lastToggled \in EUMembers)
  => /\ EUMembers \subseteq Range(exportLocations)
          => "European Union" \in Range(exportLocations)
     /\ lastToggled \notin Range(exportLocations)
          => "European Union" \notin Range(exportLocations)

\* the last member was selected by its own toggle, which marked 'European
\* Union', and a member was then deselected
C10_Witness ==
  /\ form = "App" /\ lastToggled \in EUMembers
  /\ lastToggled \notin Range(exportLocations)
  /\ "European Union" \in beforeLast
  /\ prevToggled \in EUMembers /\ "European Union" \notin beforePrev

\* C24: in every state reached from the empty selection by calls of
\* toggleExportLocation, 'European Union' is selected if and only if every
\* member state is selected, and no entry of exportLocations occurs twice.
C24_UmbrellaIffAllMembers ==
  form = "App" =>
    /\ "European Union" \in Range(exportLocations)
         <=> EUMembers \subseteq Range(exportLocations)
    /\ \A i, j \in 1..Len(exportLocations) :
         exportLocations[i] = exportLocations[j] => i = j

\* the toggle of the last missing member has put 'European Union' into a
\* selection that also holds an ordinary country
C24_Witness ==
  /\ form = "App" /\ lastToggled \in EUMembers
  /\ "European Union" \in Range(exportLocations)
  /\ "European Union" \notin beforeLast
  /\ \E c \in Range(exportLocations) : c \notin EUMembers \cup {"European Union"}

\* C19: a submit navigates to /results only with a non-empty selection and
\* then hands that selection over; a submit with an empty selection raises
\* the alert, does not navigate and leaves the selection as it is.  So the
\* formData that reaches /results has at least one export location.
C19_SubmitNeedsLocation ==
  /\ [](route = "/results" /\ form \in Forms
          => navState # Null /\ Len(navState.exportLocations) > 0)
  /\ [][/\ (route = "/" /\ route' = "/results")
             => /\ Len(exportLocations) > 0
                /\ navState'.exportLocations = exportLocations
                /\ exportLocations' = exportLocations
        /\ alerts' # alerts
             => /\ Len(exportLocations) = 0
                /\ route' = route /\ navState' = navState
                /\ exportLocations' = exportLocations]_vars

\* a submit was rejected, and a later one went through
C19_Witness == alerts > 0 /\ route = "/results" /\ navState # Null

\* ------------------------------------------------------- the results page
\* the clock of the page stops here
MaxClock == 2000

\* the ResultsPage of src/ResultsPage.jsx (CountrySummaryBox and
\* GlobalSearchBox) and the one of part_001 (LookupBox)
PageVersions == {"ResultsPage", "ResultsPage3"}

\* formData.exportLocations as it can arrive in location.state
LocationLists == {<<>>, <<"Ghana">>, <<"Ghana", "Belize">>, <<"Global Search">>}

\* location.state = { formData, globalSearchMode }
LocationStates ==
  [globalSearchMode : BOOLEAN, exportLocations : LocationLists,
   companyDetails : InitialQueries]

\* {globalSearchMode && <GlobalSearchBox ... />}
RendersGlobalSearch(st) == st.globalSearchMode

\* the mode left out of the condition of the country sections
RendersCountrySections_IgnoresMode(st) ==
  /\ Len(st.exportLocations) > 0
  /\ "Global Search" \notin Range(st.exportLocations)

\* {!globalSearchMode && formData.exportLocations &&
\* formData.exportLocations.length > 0 &&
\* !formData.exportLocations.includes('Global Search') && ...}
RendersCountrySections(st) ==
  /\ ~st.globalSearchMode
  /\ Len(st.exportLocations) > 0
  /\ "Global Search" \notin Range(st.exportLocations)

\* the index left out of the delay: every box waits 1000 ms
CountrySummaryBoxDelay_NoStagger(idx) == 1000

\* autoDelay={idx * 500 + 1000}
CountrySummaryBoxDelay(idx) == idx * 500 + 1000

\* autoDelay={idx * 250}
LookupBoxDelay(idx) == idx * 250

\* a box after its first render and its effect: the timer is armed when the
\* guard of the effect lets it through
Child(kind, idx, autoDelay, armed) ==
  [kind |-> kind, idx |-> idx, autoDelay |-> autoDelay,
   pc |-> IF armed THEN "timer" ELSE "idle"]

\* the boxes the page renders, in document order
MountedChildren(v, st) ==
  IF v = "ResultsPage"
  THEN (IF RendersGlobalSearch(st)
        THEN <<Child("GlobalSearchBox", 0, GlobalSearchBoxDelay, st.companyDetails # <<>>)>>
        ELSE <<>>)
       \o (IF RendersCountrySections(st)
           THEN [i \in 1..Len(st.exportLocations) |->
                  Child("CountrySummaryBox", i - 1, CountrySummaryBoxDelay(i - 1),
                        st.companyDetails # <<>>)]
           ELSE <<>>)
  ELSE [i \in 1..Len(st.exportLocations) |->
         Child("LookupBox", i - 1, LookupBoxDelay(i - 1), TRUE)]

InitPage ==
  /\ NoBox /\ NoForm /\ NoChat
  /\ pageVersion \in PageVersions
  /\ locationState \in LocationStates
  /\ children = MountedChildren(pageVersion, locationState)
  /\ now = 0 /\ pageLog = <<>>

\* time passes on the page
PageTick ==
  /\ pageVersion # "none"
  /\ now < MaxClock
  /\ now' = now + TickMs
  /\ UNCHANGED <<pageVersion, locationState, children, pageLog, boxVars, appVars, chatVars>>

LogEntry(i, ep) ==
  [child |-> i, kind |-> children[i].kind, idx |-> children[i].idx, ep |-> ep,
   at |-> now]

\* the first request a box sends when its lookup starts
FirstEndpoint(kind) ==
  CASE kind = "CountrySummaryBox" -> "lookup-hs-codes"
    [] kind = "GlobalSearchBox" -> "search-all"
    [] OTHER -> "lookup"

\* the timer of a box fires and its lookup starts; timers armed earlier
\* with a delay that is not longer fire first
ChildTimerFires ==
  \E i \in 1..Len(children) :
    /\ children[i].pc = "timer"
    /\ now >= children[i].autoDelay
    /\ \A k \in 1..(i - 1) :
         children[k].pc = "timer" => children[k].autoDelay > children[i].autoDelay
    /\ pageLog' = Append(pageLog, LogEntry(i, FirstEndpoint(children[i].kind)))
    /\ children' = [children EXCEPT ![i].pc =
                      IF children[i].kind = "CountrySummaryBox" THEN "hs" ELSE "lookup"]
    /\ UNCHANGED <<pageVersion, locationState, now, boxVars, appVars, chatVars>>

\* /api/lookup-hs-codes answers a CountrySummaryBox, which goes on to
\* request /api/lookup
ChildHsCodesRespond ==
  \E i \in 1..Len(children) :
    /\ children[i].pc = "hs"
    /\ pageLog' = Append(pageLog, LogEntry(i, "lookup"))
    /\ children' = [children EXCEPT ![i].pc = "lookup"]
    /\ UNCHANGED <<pageVersion, locationState, now, boxVars, appVars, chatVars>>

\* the search request of a box is answered
ChildSearchResponds ==
  \E i \in 1..Len(children) :
    /\ children[i].pc = "lookup"
    /\ children' = [children EXCEPT ![i].pc = "done"]
    /\ UNCHANGED <<pageVersion, locationState, now, pageLog, boxVars, appVars, chatVars>>

NextPage ==
  \/ PageTick
  \/ ChildTimerFires
  \/ ChildHsCodesRespond
  \/ ChildSearchResponds

SpecPage == InitPage /\ [][NextPage]_vars

\* C14: on one results page the two search modes exclude each other: with
\* globalSearchMode no CountrySummaryBox is mounted and none requests
\* /api/lookup, and without it no GlobalSearchBox is mounted and
\* /api/search-all is not requested.
C14_ModesExclusive ==
  pageVersion = "ResultsPage" =>
    /\ locationState.globalSearchMode =>
         /\ \A i \in 1..Len(children) : children[i].kind # "CountrySummaryBox"
         /\ \A n \in 1..Len(pageLog) :
              ~(pageLog[n].kind = "CountrySummaryBox" /\ pageLog[n].ep = "lookup")
    /\ ~locationState.globalSearchMode =>
         /\ \A i \in 1..Len(children) : children[i].kind # "GlobalSearchBox"
         /\ \A n \in 1..Len(pageLog) : pageLog[n].ep # "search-all"

\* a global search has been sent from a page that was given a country list
C14_Witness ==
  /\ pageVersion = "ResultsPage" /\ locationState.globalSearchMode
  /\ Len(locationState.exportLocations) = 2
  /\ \E n \in 1..Len(pageLog) : pageLog[n].ep = "search-all"

\* the entries of pageLog that are the /api/lookup request of a per-country
\* box
PerCountryLookups ==
  {n \in 1..Len(pageLog) :
     pageLog[n].ep = "lookup" /\ pageLog[n].kind \in {"CountrySummaryBox", "LookupBox"}}

\* C20: the per-country lookups are staggered and go out in list order:
\* the lookup of the box at index i is not requested before i*500 + 1000 ms
\* (CountrySummaryBox) or i*250 ms (LookupBox) after mount, and for i < j
\* the request of box i precedes the request of box j.
C20_StaggeredInOrder ==
  /\ \A n \in PerCountryLookups :
       pageLog[n].at >= (IF pageLog[n].kind = "CountrySummaryBox"
                         THEN pageLog[n].idx * 500 + 1000
                         ELSE pageLog[n].idx * 250)
  /\ \A m, n \in PerCountryLookups :
       pageLog[m].idx < pageLog[n].idx => m < n
  /\ \A i, j \in 1..Len(children) :
       (/\ children[i].kind \in {"CountrySummaryBox", "LookupBox"}
        /\ children[i].kind = children[j].kind
        /\ children[i].idx < children[j].idx
        /\ \E n \in PerCountryLookups : pageLog[n].child = j)
         => \E m \in PerCountryLookups : pageLog[m].child = i

\* the entries of pageLog that are the first request of a per-country box,
\* sent when its timer fires and its lookup starts
PerCountryStarts ==
  {n \in 1..Len(pageLog) :
     /\ pageLog[n].kind \in {"CountrySummaryBox", "LookupBox"}
     /\ pageLog[n].ep = (IF pageLog[n].kind = "CountrySummaryBox"
                         THEN "lookup-hs-codes" ELSE "lookup")}

\* C20, amended: the per-country lookups are staggered and started in list
\* order: no request of the box at index i goes out before i*500 + 1000 ms
\* (CountrySummaryBox) or i*250 ms (LookupBox) after mount, and for i < j
\* the first request of box i precedes the first request of box j.
C20_StartsStaggeredInOrder ==
  /\ \A n \in 1..Len(pageLog) :
       /\ pageLog[n].kind = "CountrySummaryBox"
            => pageLog[n].at >= pageLog[n].idx * 500 + 1000
       /\ pageLog[n].kind = "LookupBox" => pageLog[n].at >= pageLog[n].idx * 250
  /\ \A m, n \in PerCountryStarts :
       pageLog[m].idx < pageLog[n].idx => m < n
  /\ \A i, j \in 1..Len(children) :
       (/\ children[i].kind \in {"CountrySummaryBox", "LookupBox"}
        /\ children[i].kind = children[j].kind
        /\ children[i].idx < children[j].idx
        /\ \E n \in PerCountryStarts : pageLog[n].child = j)
         => \E m \in PerCountryStarts : pageLog[m].child = i

\* two CountrySummaryBoxes have started in list order, and the second has
\* sent its /api/lookup before the first
C20_Witness ==
  /\ \E m, n \in PerCountryStarts :
       pageLog[m].kind = "CountrySummaryBox" /\ pageLog[m].idx < pageLog[n].idx
  /\ \E m, n \in PerCountryLookups :
       pageLog[m].idx > pageLog[n].idx /\ m < n

\* ------------------------------------------------------- the chat widget
\* how many messages the user sends
MaxSends == 2

\* message.includes('hs code') || message.includes('harmonized system') ||
\* message.includes('classification')
hsWords ==
  << <<"h","s"," ","c","o","d","e">>,
     <<"h","a","r","m","o","n","i","z","e","d"," ","s","y","s","t","e","m">>,
     <<"c","l","a","s","s","i","f","i","c","a","t","i","o","n">> >>

\* message.includes('tariff') || ... || message.includes('export')
tariffWords ==
  << <<"t","a","r","i","f","f">>,
     <<"d","u","t","y">>,
     <<"t","a","x">>,
     <<"c","o","s","t">>,
     <<"e","x","p","o","r","t">> >>

\* message.includes('trade') || message.includes('export') ||
\* message.includes('import')
tradeWords ==
  << <<"t","r","a","d","e">>,
     <<"e","x","p","o","r","t">>,
     <<"i","m","p","o","r","t">> >>

\* const productKeywords = [...]
productKeywords ==
  << <<"s","h","o","e","s">>,
     <<"l","a","p","t","o","p","s">>,
     <<"c","o","m","p","u","t","e","r","s">>,
     <<"s","t","e","e","l">>,
     <<"p","i","p","e","s">>,
     <<"c","l","o","t","h","i","n","g">>,
     <<"c","a","r","s">>,
     <<"a","u","t","o","m","o","b","i","l","e","s">>,
     <<"m","a","c","h","i","n","e","r","y">>,
     <<"e","l","e","c","t","r","o","n","i","c","s">>,
     <<"f","o","o","d">>,
     <<"c","h","e","m","i","c","a","l","s">>,
     <<"p","h","a","r","m","a","c","e","u","t","i","c","a","l","s">>,
     <<"t","e","x","t","i","l","e","s">>,
     <<"f","u","r","n","i","t","u","r","e">>,
     <<"t","o","y","s">>,
     <<"b","o","o","k","s">> >>

\* const countries = [...] of extractCountryFromMessage
chatCountries ==
  << <<"c","h","i","n","a">>,
     <<"u","n","i","t","e","d"," ","s","t","a","t","e","s">>,
     <<"u","s","a">>,
     <<"c","a","n","a","d","a">>,
     <<"m","e","x","i","c","o">>,
     <<"j","a","p","a","n">>,
     <<"g","e","r","m","a","n","y">>,
     <<"f","r","a","n","c","e">>,
     <<"u","k">>,
     <<"u","n","i","t","e","d"," ","k","i","n","g","d","o","m">>,
     <<"i","t","a","l","y">>,
     <<"s","p","a","i","n">>,
     <<"b","r","a","z","i","l">>,
     <<"i","n","d","i","a">>,
     <<"s","o","u","t","h"," ","k","o","r","e","a">>,
     <<"a","u","s","t","r","a","l","i","a">>,
     <<"s","i","n","g","a","p","o","r","e">>,
     <<"h","o","n","g"," ","k","o","n","g">>,
     <<"t","a","i","w","a","n">>,
     <<"v","i","e","t","n","a","m">>,
     <<"t","h","a","i","l","a","n","d">>,
     <<"m","a","l","a","y","s","i","a">>,
     <<"i","n","d","o","n","e","s","i","a">>,
     <<"p","h","i","l","i","p","p","i","n","e","s">>,
     <<"e","u","r","o","p","e","a","n"," ","u","n","i","o","n">>,
     <<"e","u">> >>
sCountry == <<"c","o","u","n","t","r","y">>
sUsa == <<"u","s","a">>
sUnitedStates == <<"u","n","i","t","e","d"," ","s","t","a","t","e","s">>

\* what the user types into the input field
mBlank == <<" "," ">>
mHsToys == <<" ","H","S"," ","c","o","d","e"," ","t","o","y","s"," ">>
mHsOnly == <<"h","s"," ","c","o","d","e">>
mTaxToysEu == <<"t","a","x"," ","t","o","y","s"," ","e","u">>
mUk == <<"u","k">>
mHi == <<"h","i">>
ChatInputs == {mBlank, mHsToys, mHsOnly, mTaxToysEu, mUk, mHi}

\* String.prototype.trim, for blanks
RECURSIVE chatTrim(_)
chatTrim(s) ==
  IF s = <<>> THEN s
  ELSE IF Head(s) = " " THEN chatTrim(Tail(s))
  ELSE IF s[Len(s)] = " " THEN chatTrim(SubSeq(s, 1, Len(s) - 1))
  ELSE s

\* the guard without the trim: only the empty input is turned away
sendAccepted_NoTrim(input) == input # <<>>

\* if (!inputValue.trim()) return
sendAccepted(input) == chatTrim(input) # <<>>

\* message.includes(a) || message.includes(b) || ...
includesAny(message, words) ==
  \E i \in 1..Len(words) : includes(message, words[i])

\* the first entry of the list that the text contains, <<>> for none
firstIncluded(text, words) ==
  LET hits == {i \in 1..Len(words) : includes(text, words[i])}
  IN  IF hits = {} THEN <<>>
      ELSE words[CHOOSE i \in hits : \A j \in hits : i <= j]

\* message.match(/"([^"]+)"/): the text between the first pair of quote
\* marks that has something in between, <<>> for no match
quotedMatch(message, q) ==
  LET next(i) == {j \in (i + 1)..Len(message) : message[j] = q}
      opens == {i \in 1..Len(message) :
                  /\ message[i] = q
                  /\ next(i) # {}
                  /\ \A j \in next(i) : j > i + 1}
  IN  IF opens = {} THEN <<>>
      ELSE LET i == CHOOSE k \in opens : \A l \in opens : k <= l
               j == CHOOSE k \in next(i) : \A l \in next(i) : k <= l
           IN  SubSeq(message, i + 1, j - 1)

\* extractProductFromMessage(message), <<>> standing for null
extractProductFromMessage(message) ==
  LET product == firstIncluded(toLowerCase(message), productKeywords)
  IN  IF product # <<>> THEN product
      ELSE IF quotedMatch(message, "\"") # <<>> THEN quotedMatch(message, "\"")
      ELSE quotedMatch(message, "'")

\* extractCountryFromMessage(message), <<>> standing for null
extractCountryFromMessage(message) ==
  LET country == firstIncluded(toLowerCase(message), chatCountries)
  IN  IF country = sUsa THEN sUnitedStates ELSE country

\* a reply of the assistant: which text it is, what it is about, and how
\* many entries it lists
Reply(kind, about, n) == [kind |-> kind, about |-> about, n |-> n]

\* the outcome of an async function: a value returned or an error thrown
Returned(v) == [thrown |-> FALSE, value |-> v]
Thrown == [thrown |-> TRUE, value |-> Null]

\* an entry of hs_codes that is null
hsNull == Null

\* what /api/lookup-hs-codes can answer the widget: an OK answer with no
\* code, with one code or with a null entry, a non-OK answer and a rejected
\* fetch
ChatHsResponses ==
  {[kind |-> "ok", hs_codes |-> h] : h \in {<<>>, <<hsLaptops>>, <<hsNull>>}}
    \cup {[kind |-> k, hs_codes |-> <<>>] : k \in {"http", "exception"}}

\* what /api/lookup can answer the widget: an OK answer with no, one or
\* three matches, a non-OK answer and a rejected fetch
ChatLookupResponses ==
  {[kind |-> "ok", matches |-> m] :
     m \in {<<>>, <<[record |-> RecTariff]>>,
            <<[record |-> RecText], [record |-> RecTariff], [record |-> RecOpaque]>>}}
    \cup {[kind |-> k, matches |-> <<>>] : k \in {"http", "exception"}}

\* what a run keeps of the answer it got: its kind and the number of
\* entries it carried; NoAnswer before the answer and for a run that asks
\* no backend
Answer(kind, entries) == [kind |-> kind, entries |-> entries]
NoAnswer == Answer("none", 0)

\* lookupHSCodes(query) of the widget: data.hs_codes || [] of an OK answer;
\* a non-OK answer, an unreadable body and a rejected fetch throw
chatLookupHSCodes(ans) ==
  IF ans.kind = "ok" THEN Returned(ans.hs_codes) ELSE Thrown

\* the HS-code branch of getIntelligentResponse without its try / catch
hsBranch_NoCatch(product, ans) ==
  LET hs == chatLookupHSCodes(ans)
  IN  IF hs.thrown \/ (\E i \in 1..Len(slice(hs.value, 3)) : hs.value[i] = hsNull)
      THEN Thrown
      ELSE IF Len(hs.value) > 0
           THEN Returned(Reply("hsCodes", product, Len(slice(hs.value, 3))))
           ELSE Returned(Reply("hsGuidance", <<>>, 0))

\* the HS-code branch of getIntelligentResponse once the answer is there:
\* the list of the first three codes, or the guidance text when the lookup
\* threw, returned nothing, or the list could not be written
hsBranch(product, ans) ==
  LET hs == chatLookupHSCodes(ans)
  IN  IF /\ ~hs.thrown
         /\ Len(hs.value) > 0
         /\ \A i \in 1..Len(slice(hs.value, 3)) : hs.value[i] # hsNull
      THEN Returned(Reply("hsCodes", product, Len(slice(hs.value, 3))))
      ELSE Returned(Reply("hsGuidance", <<>>, 0))

\* let searchQuery = product; if (country) searchQuery += ` ${country}`
searchQuery(product, country) ==
  IF country # <<>> THEN product \o <<" ">> \o country ELSE product

\* searchTariffData(query, country): the text about the first two matches,
\* or throw new Error('Tariff search failed')
searchTariffData(q, ans) ==
  IF ans.kind = "ok" /\ Len(ans.matches) > 0
  THEN LET shown == slice(ans.matches, 2)
       IN  Returned(Reply("tariffInfo", q,
             Cardinality({i \in 1..Len(shown) : shown[i].record.type = "object"})))
  ELSE Thrown

\* the tariff branch of getIntelligentResponse once the answer is there
tariffBranch(q, ans) ==
  IF searchTariffData(q, ans).thrown
  THEN Returned(Reply("tariffGuidance", <<>>, 0))
  ELSE searchTariffData(q, ans)

\* which branch of getIntelligentResponse a message takes
Branch(userMessage) ==
  LET message == toLowerCase(userMessage)
  IN  CASE includesAny(message, hsWords) -> "hs"
        [] includesAny(message, tariffWords) -> "tariff"
        [] OTHER -> "rest"

\* the branches of getIntelligentResponse that ask no backend; which of
\* the four default texts Math.random picks is not kept
localReply(userMessage) ==
  LET message == toLowerCase(userMessage)
      country == extractCountryFromMessage(userMessage)
  IN  CASE Branch(userMessage) = "hs" -> Reply("hsGuidance", <<>>, 0)
        [] Branch(userMessage) = "tariff" -> Reply("tariffGuidance", <<>>, 0)
        [] OTHER ->
             IF (includes(message, sCountry) \/ country # <<>>) /\ country # <<>>
             THEN Reply("country", country, 0)
             ELSE IF includesAny(message, tradeWords)
             THEN Reply("tradeHelp", <<>>, 0)
             ELSE Reply("default", <<>>, 0)

\* where getIntelligentResponse(userMessage) first stops: at the fetch of
\* the HS codes, at the fetch of the tariff data, or at its return
firstAwait(userMessage) ==
  CASE Branch(userMessage) = "hs" /\ extractProductFromMessage(userMessage) # <<>> -> "hs"
    [] Branch(userMessage) = "tariff" /\ extractProductFromMessage(userMessage) # <<>>
         -> "tariff"
    [] OTHER -> "return"

\* try { setMessages(prev => [...prev, {text: response, sender: 'terri'}]) }
\* catch { setMessages(prev => [...prev, {text: "I'm sorry, ...", ...}]) }
replyMessage(outcome, r) ==
  [sender |-> "terri",
   text |-> IF outcome.thrown THEN Reply("apology", <<>>, 0) ELSE outcome.value,
   run |-> r]

\* useState([{ text: "Hi! I'm Terri, ...", sender: 'terri' }])
Greeting == [sender |-> "terri", text |-> Reply("greeting", <<>>, 0), run |-> 0]

InitChat ==
  /\ NoBox /\ NoForm /\ NoPage
  /\ chatMessages = <<Greeting>>
  /\ inputValue = <<>>
  /\ isTyping = FALSE
  /\ runs = <<>>
  /\ chatEvent = "mount"

\* the continuation of a resolved promise runs before the next event
NoMicrotask == \A r \in 1..Len(runs) : runs[r].pc # "return"

\* onChange={(e) => setInputValue(e.target.value)}
ChatInput ==
  /\ NoMicrotask
  /\ \E v \in ChatInputs : inputValue' = v
  /\ chatEvent' = "input"
  /\ UNCHANGED <<chatMessages, isTyping, runs, boxVars, appVars, pageVars>>

\* handleSendMessage up to its await: a click on the send button or Enter
HandleSendMessage ==
  /\ NoMicrotask
  /\ IF ~sendAccepted(inputValue)
     THEN /\ chatEvent' = "ignored"
          /\ UNCHANGED <<chatMessages, inputValue, isTyping, runs>>
     ELSE /\ Len(runs) < MaxSends
          /\ chatMessages' = Append(chatMessages,
               [sender |-> "user", text |-> chatTrim(inputValue),
                run |-> Len(runs) + 1])
          /\ inputValue' = <<>>
          /\ isTyping' = TRUE
          /\ runs' = Append(runs, [text |-> chatTrim(inputValue),
                                   pc |-> firstAwait(chatTrim(inputValue)),
                                   answer |-> NoAnswer])
          /\ chatEvent' = "send"
  /\ UNCHANGED <<boxVars, appVars, pageVars>>

\* handleSendMessage after its await: the reply or the apology is appended
\* and the finally block clears isTyping
Finish(r, outcome, ans) ==
  /\ chatMessages' = Append(chatMessages, replyMessage(outcome, r))
  /\ isTyping' = FALSE
  /\ runs' = [runs EXCEPT ![r].pc = "done", ![r].answer = ans]
  /\ chatEvent' = "reply"
  /\ UNCHANGED <<inputValue, boxVars, appVars, pageVars>>

\* getIntelligentResponse returned without asking a backend
ChatReplies ==
  \E r \in 1..Len(runs) :
    /\ runs[r].pc = "return"
    /\ Finish(r, Returned(localReply(runs[r].text)), NoAnswer)

\* /api/lookup-hs-codes answers the widget
ChatHsCodesRespond ==
  \E r \in 1..Len(runs) :
    /\ runs[r].pc = "hs"
    /\ \E ans \in ChatHsResponses :
         Finish(r, hsBranch(extractProductFromMessage(runs[r].text), ans),
                Answer(ans.kind, Len(ans.hs_codes)))

\* /api/lookup answers the widget
ChatTariffRespond ==
  \E r \in 1..Len(runs) :
    /\ runs[r].pc = "tariff"
    /\ \E ans \in ChatLookupResponses :
         Finish(r, tariffBranch(searchQuery(extractProductFromMessage(runs[r].text),
                                            extractCountryFromMessage(runs[r].text)),
                                ans),
                Answer(ans.kind, Len(ans.matches)))

NextChat ==
  \/ ChatInput
  \/ HandleSendMessage
  \/ ChatReplies
  \/ ChatHsCodesRespond
  \/ ChatTariffRespond

SpecChat == InitChat /\ [][NextChat]_vars

\* ------------------------------------------------ properties of the widget
IsBlank(s) == \A i \in 1..Len(s) : s[i] = " "

\* the positions in the message list of the user message and of the replies
\* that belong to the r-th accepted send
UserMessages(r) ==
  {i \in 1..Len(chatMessages) :
     chatMessages[i].sender = "user" /\ chatMessages[i].run = r}
Replies(r) ==
  {i \in 1..Len(chatMessages) :
     chatMessages[i].sender = "terri" /\ chatMessages[i].run = r}

\* C25: the message list is append-only; a send with empty or blank input
\* changes nothing; an accepted send appends exactly one user message at
\* once and, when its answer is there, exactly one reply of the assistant,
\* after which isTyping is false.
C25_AppendOnlyOneReplyEach ==
  /\ [](\A r \in 1..Len(runs) :
          /\ Cardinality(UserMessages(r)) = 1
          /\ Cardinality(Replies(r)) = (IF runs[r].pc = "done" THEN 1 ELSE 0)
          /\ \A i \in UserMessages(r), j \in Replies(r) : i < j)
  /\ [][/\ Len(chatMessages') >= Len(chatMessages)
        /\ SubSeq(chatMessages', 1, Len(chatMessages)) = chatMessages
        /\ (IsBlank(inputValue) /\ chatEvent' \in {"send", "ignored"})
             => UNCHANGED <<chatMessages, inputValue, isTyping, runs>>
        /\ chatEvent' = "send"
             => /\ Len(chatMessages') = Len(chatMessages) + 1
                /\ chatMessages'[Len(chatMessages')].sender = "user"
                /\ Len(runs') = Len(runs) + 1
        /\ chatEvent' = "reply" => ~isTyping']_vars

\* at least two messages were sent and every one of them has its reply
C25_Witness ==
  /\ Len(runs) >= 2
  /\ \A r \in 1..Len(runs) : runs[r].pc = "done"
  /\ Len(chatMessages) = 1 + 2 * Len(runs)
  /\ ~isTyping

\* C26: isTyping is true whenever a reply is still pending, also when a
\* second message was sent before the reply to the first arrived.
C26_TypingWhilePending ==
  (\E r \in 1..Len(runs) : runs[r].pc # "done") => isTyping

\* whether the backend request of a run failed: a non-OK answer, an
\* unreadable body, a rejected fetch, or an OK answer without entries
BackendFailed(run) ==
  /\ run.answer.kind # "none"
  /\ run.answer.kind # "ok" \/ run.answer.entries = 0

\* C27: a backend request that fails while a message is answered leads to
\* the guidance text of the branch the message took, and the apology
\* ("trouble connecting to the trade database") is never appended.
C27_BackendFailureGivesGuidance ==
  /\ \A i \in 1..Len(chatMessages) :
       chatMessages[i].sender = "terri" => chatMessages[i].text.kind # "apology"
  /\ \A r \in 1..Len(runs) :
       (runs[r].pc = "done" /\ BackendFailed(runs[r]))
         => \A i \in Replies(r) :
              chatMessages[i].text.kind =
                (IF Branch(runs[r].text) = "hs" THEN "hsGuidance" ELSE "tariffGuidance")

\* an HS-code request was rejected and a tariff request got an HTTP error,
\* and both messages were answered
C27_Witness ==
  /\ \E r \in 1..Len(runs) :
       runs[r].pc = "done" /\ runs[r].answer.kind = "exception"
         /\ Branch(runs[r].text) = "hs"
  /\ \E r \in 1..Len(runs) :
       runs[r].pc = "done" /\ runs[r].answer.kind = "http"
         /\ Branch(runs[r].text) = "tariff"
====
